---- MODULE Spec2Model ----
(***************************************************************************)
(* The reporters of pyformance (InfluxReporter, LineProtocolReporter,      *)
(* CsvReporter, AsyncInfluxReporter): their line-protocol encoders as      *)
(* operators, and report_now as actions over the sinks they write to.      *)
(*                                                                         *)
(* Text is a sequence of tokens.  A token is a literal piece of text or a  *)
(* number printed by "%s"; a number n * 10^e is kept as the pair (n, e) so *)
(* that nanosecond timestamps stay exact (Python integers are unbounded).  *)
(* Float arithmetic is taken as exact.                                     *)
(***************************************************************************)
EXTENDS Integers, Sequences, FiniteSets, TLC

\* ------------------------------------------------------------------ text
Lit(s) == [k |-> "lit", s |-> s, n |-> 0, e |-> 0]

Num(n) == [k |-> "num", s |-> "", n |-> n, e |-> 0]

Sci(n, e) == [k |-> "num", s |-> "", n |-> n, e |-> e]

RECURSIVE Join(_, _)
\* sep.join(parts): the parts, with sep between consecutive ones
Join(parts, sep) ==
    IF Len(parts) = 0 THEN <<>>
    ELSE IF Len(parts) = 1 THEN parts[1]
    ELSE parts[1] \o sep \o Join(Tail(parts), sep)

RECURSIVE Flatten(_)
Flatten(parts) ==
    IF Len(parts) = 0 THEN <<>> ELSE parts[1] \o Flatten(Tail(parts))

\* ------------------------------------------------------- python values
\* A field value: a plain number, a MarkInt, a str, or the dict / list held
\* under the "tags" / "events" keys of a snapshot's field mapping.
IntV(n) == [t |-> "int", n |-> n, s |-> "", tags |-> <<>>, ev |-> <<>>]

MarkIntV(n) == [t |-> "markint", n |-> n, s |-> "", tags |-> <<>>, ev |-> <<>>]

StrV(s) == [t |-> "str", n |-> 0, s |-> s, tags |-> <<>>, ev |-> <<>>]

\* an instance of a subclass of str (a str-mixin Enum member, numpy.str_, ...)
StrSubV(s) == [t |-> "strsub", n |-> 0, s |-> s, tags |-> <<>>, ev |-> <<>>]

TagsV(tags) == [t |-> "tags", n |-> 0, s |-> "", tags |-> tags, ev |-> <<>>]

EventsV(ev) == [t |-> "events", n |-> 0, s |-> "", tags |-> <<>>, ev |-> ev]

\* A dict is the sequence of its items [k, v] in insertion order, keys distinct.
Item(k, v) == [k |-> k, v |-> v]

dict_keys(d) == {d[i].k : i \in 1..Len(d)}

dict_has(d, k) == \E i \in 1..Len(d) : d[i].k = k

dict_get(d, k, default) ==
    IF dict_has(d, k) THEN d[CHOOSE i \in 1..Len(d) : d[i].k = k].v ELSE default

\* d[k] = v: an existing key keeps its place, a new key goes last
dict_set(d, k, v) ==
    IF dict_has(d, k)
    THEN [i \in 1..Len(d) |-> IF d[i].k = k THEN Item(k, v) ELSE d[i]]
    ELSE Append(d, Item(k, v))

RECURSIVE dict_update(_, _)
\* d.update(u)
dict_update(d, u) ==
    IF Len(u) = 0 THEN d
    ELSE dict_update(dict_set(d, u[1].k, u[1].v), Tail(u))

\* str(value): what "%s" % value and map(str, cols) print
python_str(value) ==
    IF value.t = "int" THEN <<Num(value.n)>>
    ELSE IF value.t = "markint" THEN <<Lit("MarkInt("), Num(value.n), Lit(")")>>
    ELSE IF value.t \in {"str", "strsub"} THEN <<Lit(value.s)>>
    ELSE IF value.t = "tags"
    THEN <<Lit("{")>>
         \o Join([i \in 1..Len(value.tags) |->
                    <<Lit(value.tags[i].k), Lit(": ")>>
                        \o [j \in 1..Len(value.tags[i].v) |-> Lit(value.tags[i].v[j])]],
                 <<Lit(", ")>>)
         \o <<Lit("}")>>
    ELSE <<Lit("[")>>
         \o Join([i \in 1..Len(value.ev) |-> <<Lit("EventPoint@"), Num(value.ev[i].time)>>],
                 <<Lit(", ")>>)
         \o <<Lit("]")>>

\* ----------------------------------------------------- reporters/utils.py
\* a member of an Enum class: members of different classes are never equal,
\* whatever their values
Member(enum, value) == [enum |-> enum, value |-> value]

ReportingPrecision == {Member("utils", v) : v \in {"h", "m", "s", "ms", "u", "ns"}}

\* int(x / d) for an integer x: truncation toward zero
IntDiv(x, d) == IF x >= 0 THEN x \div d ELSE -((-x) \div d)

\* int(x * 10^e), kept as the pair (x, e); zero has one form only
Scaled(x, e) == IF x = 0 THEN [n |-> 0, e |-> 0] ELSE [n |-> x, e |-> e]

\* a variant that returns the seconds whatever the precision
to_timestamp_in_precision_in_seconds(timestamp, precision) ==
    [raises |-> precision \notin ReportingPrecision, n |-> timestamp, e |-> 0]

\* raises |-> TRUE stands for: raise Exception("Unsupported ReportingPrecision")
to_timestamp_in_precision(timestamp, precision) ==
    IF precision = Member("utils", "h") THEN [raises |-> FALSE, n |-> IntDiv(IntDiv(timestamp, 60), 60), e |-> 0]
    ELSE IF precision = Member("utils", "m") THEN [raises |-> FALSE, n |-> IntDiv(timestamp, 60), e |-> 0]
    ELSE IF precision = Member("utils", "s") THEN [raises |-> FALSE, n |-> timestamp, e |-> 0]
    ELSE IF precision = Member("utils", "ms") THEN [raises |-> FALSE] @@ Scaled(timestamp, 3)
    ELSE IF precision = Member("utils", "u") THEN [raises |-> FALSE] @@ Scaled(timestamp, 6)
    ELSE IF precision = Member("utils", "ns") THEN [raises |-> FALSE] @@ Scaled(timestamp, 9)
    ELSE [raises |-> TRUE, n |-> 0, e |-> 0]

\* "%s" % timestamp
TsText(ts) == <<Sci(ts.n, ts.e)>>

\* ------------------------------------- reporters/line_protocol_reporter.py
\* the text "%s" prints for what _format_field_value returns
line_protocol_reporter_format_field_value(value) ==
    IF value.t = "markint" THEN <<Num(value.n), Lit("i")>>
    ELSE IF value.t # "str" THEN python_str(value)
    ELSE <<Lit("\""), Lit(value.s), Lit("\"")>>

\* re.sub("([ ,=])", r"\\\1", value) on a str given as its characters
line_protocol_reporter_format_tag_value(value) ==
    Flatten([i \in 1..Len(value) |->
        IF value[i] \in {" ", ",", "="} THEN <<Lit("\\"), Lit(value[i])>>
        ELSE <<Lit(value[i])>>])

\* a variant that puts "<prefix>." before the key even when the prefix is empty
LineProtocolReporter_get_table_name_always_prefixed(self, metric_key) ==
    <<Lit(self.prefix), Lit("."), Lit(metric_key)>>

LineProtocolReporter_get_table_name(self, metric_key) ==
    IF self.prefix = "" THEN <<Lit(metric_key)>>
    ELSE <<Lit(self.prefix), Lit("."), Lit(metric_key)>>

\* a variant that skips "tags" only, so that "events" is written as a field
LineProtocolReporter_stringify_values_keeping_events(metric_values) ==
    LET kept == SelectSeq(metric_values, LAMBDA it : it.k # "tags")
    IN Join([i \in 1..Len(kept) |->
                <<Lit(kept[i].k), Lit("=")>>
                    \o line_protocol_reporter_format_field_value(kept[i].v)],
            <<Lit(",")>>)

LineProtocolReporter_stringify_values(metric_values) ==
    LET kept == SelectSeq(metric_values, LAMBDA it : it.k # "tags" /\ it.k # "events")
    IN Join([i \in 1..Len(kept) |->
                <<Lit(kept[i].k), Lit("=")>>
                    \o line_protocol_reporter_format_field_value(kept[i].v)],
            <<Lit(",")>>)

\* a variant without the copy: update() is applied to self.global_tags itself
LineProtocolReporter_global_tags_after_aliased(self, metric) ==
    dict_update(self.global_tags, metric.tags)

\* what self.global_tags holds once _stringify_tags(metric) has run: update()
\* is applied to copy(self.global_tags), so the attribute keeps its value
LineProtocolReporter_global_tags_after(self, metric) == self.global_tags

LineProtocolReporter_stringify_tags(self, metric) ==
    LET all_tags == dict_update(self.global_tags, metric.tags)
    IN IF Len(all_tags) > 0
       THEN <<Lit(",")>> \o
            Join([i \in 1..Len(all_tags) |->
                    <<Lit(all_tags[i].k), Lit("=")>>
                        \o line_protocol_reporter_format_tag_value(all_tags[i].v)],
                 <<Lit(",")>>)
       ELSE <<>>

RECURSIVE LineProtocolReporter_lines_from(_, _, _, _)
\* the loop of _get_influx_protocol_lines from entry i on; self is threaded
\* through because _stringify_tags reads self.global_tags at every entry
LineProtocolReporter_lines_from(self, metrics, timestamp, i) ==
    IF i > Len(metrics) THEN [lines |-> <<>>, raises |-> FALSE, global_tags |-> self.global_tags]
    ELSE
      LET key == metrics[i].key
          metric_values == metrics[i].values
          table == LineProtocolReporter_get_table_name(self, key.key)
          values == LineProtocolReporter_stringify_values(metric_values)
          tags == LineProtocolReporter_stringify_tags(self, key)
          self1 == [self EXCEPT !.global_tags = LineProtocolReporter_global_tags_after(self, key)]
          metric_line ==
              IF Len(values) > 0
              THEN << table \o tags \o <<Lit(" ")>> \o values \o <<Lit(" ")>> \o TsText(timestamp) >>
              ELSE <<>>
          events == dict_get(metric_values, "events", EventsV(<<>>)).ev
          event_lines ==
              [j \in 1..Len(events) |->
                  table \o tags \o <<Lit(" ")>>
                      \o LineProtocolReporter_stringify_values(events[j].values)
                      \o <<Lit(" ")>>
                      \o TsText(to_timestamp_in_precision(events[j].time, self.reporting_precision))]
          event_raises ==
              Len(events) > 0
                  /\ to_timestamp_in_precision(events[1].time, self.reporting_precision).raises
          rest == LineProtocolReporter_lines_from(self1, metrics, timestamp, i + 1)
      IN IF event_raises
         THEN [lines |-> <<>>, raises |-> TRUE, global_tags |-> self1.global_tags]
         ELSE [lines |-> metric_line \o event_lines \o rest.lines,
               raises |-> rest.raises,
               global_tags |-> rest.global_tags]

LineProtocolReporter_get_influx_protocol_lines(self, metrics, timestamp) ==
    LineProtocolReporter_lines_from(self, metrics, timestamp, 1)

\* ------------------------------------- --------- reporters/influx.py
\* the text "%s" prints for what _format_field_value returns
influx_format_field_value(value) ==
    IF value.t = "markint" THEN <<Num(value.n), Lit("i")>>
    ELSE IF value.t # "str" THEN python_str(value)
    ELSE <<Lit("\""), Lit(value.s), Lit("\"")>>

\* re.sub("([ ,=])", r"\\\1", value) on a str given as its characters
influx_format_tag_value(value) ==
    Flatten([i \in 1..Len(value) |->
        IF value[i] \in {" ", ",", "="} THEN <<Lit("\\"), Lit(value[i])>>
        ELSE <<Lit(value[i])>>])

InfluxReporter_get_table_name(self, metric_key) ==
    IF self.prefix = "" THEN <<Lit(metric_key)>>
    ELSE <<Lit(self.prefix), Lit("."), Lit(metric_key)>>

InfluxReporter_stringify_values(metric_values) ==
    LET kept == SelectSeq(metric_values, LAMBDA it : it.k # "tags" /\ it.k # "events")
    IN Join([i \in 1..Len(kept) |->
                <<Lit(kept[i].k), Lit("=")>>
                    \o influx_format_field_value(kept[i].v)],
            <<Lit(",")>>)

\* what self.global_tags holds once _stringify_tags(metric) has run: update()
\* is applied to copy(self.global_tags), so the attribute keeps its value
InfluxReporter_global_tags_after(self, metric) == self.global_tags

InfluxReporter_stringify_tags(self, metric) ==
    LET all_tags == dict_update(self.global_tags, metric.tags)
    IN IF Len(all_tags) > 0
       THEN <<Lit(",")>> \o
            Join([i \in 1..Len(all_tags) |->
                    <<Lit(all_tags[i].k), Lit("=")>>
                        \o influx_format_tag_value(all_tags[i].v)],
                 <<Lit(",")>>)
       ELSE <<>>

RECURSIVE InfluxReporter_lines_from(_, _, _, _)
\* the loop of _get_influx_protocol_lines from entry i on; self is threaded
\* through because _stringify_tags reads self.global_tags at every entry
InfluxReporter_lines_from(self, metrics, timestamp, i) ==
    IF i > Len(metrics) THEN [lines |-> <<>>, raises |-> FALSE, global_tags |-> self.global_tags]
    ELSE
      LET key == metrics[i].key
          metric_values == metrics[i].values
          table == InfluxReporter_get_table_name(self, key.key)
          values == InfluxReporter_stringify_values(metric_values)
          tags == InfluxReporter_stringify_tags(self, key)
          self1 == [self EXCEPT !.global_tags = InfluxReporter_global_tags_after(self, key)]
          metric_line ==
              IF Len(values) > 0
              THEN << table \o tags \o <<Lit(" ")>> \o values \o <<Lit(" ")>> \o TsText(timestamp) >>
              ELSE <<>>
          events == dict_get(metric_values, "events", EventsV(<<>>)).ev
          event_lines ==
              [j \in 1..Len(events) |->
                  table \o tags \o <<Lit(" ")>>
                      \o InfluxReporter_stringify_values(events[j].values)
                      \o <<Lit(" ")>>
                      \o TsText(to_timestamp_in_precision(events[j].time, self.reporting_precision))]
          event_raises ==
              Len(events) > 0
                  /\ to_timestamp_in_precision(events[1].time, self.reporting_precision).raises
          rest == InfluxReporter_lines_from(self1, metrics, timestamp, i + 1)
      IN IF event_raises
         THEN [lines |-> <<>>, raises |-> TRUE, global_tags |-> self1.global_tags]
         ELSE [lines |-> metric_line \o event_lines \o rest.lines,
               raises |-> rest.raises,
               global_tags |-> rest.global_tags]

InfluxReporter_get_influx_protocol_lines(self, metrics, timestamp) ==
    InfluxReporter_lines_from(self, metrics, timestamp, 1)

\* ------------------------------------- reporters/async_influx_reporter.py
\* the module's own copy of the conversion, over its own ReportingPrecision enum
async_influx_reporter_ReportingPrecision ==
    {Member("async_influx_reporter", v) : v \in {"h", "m", "s", "ms", "u", "ns"}}

async_influx_reporter_to_timestamp_in_precision(timestamp, precision) ==
    IF precision = Member("async_influx_reporter", "h") THEN [raises |-> FALSE, n |-> IntDiv(IntDiv(timestamp, 60), 60), e |-> 0]
    ELSE IF precision = Member("async_influx_reporter", "m") THEN [raises |-> FALSE, n |-> IntDiv(timestamp, 60), e |-> 0]
    ELSE IF precision = Member("async_influx_reporter", "s") THEN [raises |-> FALSE, n |-> timestamp, e |-> 0]
    ELSE IF precision = Member("async_influx_reporter", "ms") THEN [raises |-> FALSE] @@ Scaled(timestamp, 3)
    ELSE IF precision = Member("async_influx_reporter", "u") THEN [raises |-> FALSE] @@ Scaled(timestamp, 6)
    ELSE IF precision = Member("async_influx_reporter", "ns") THEN [raises |-> FALSE] @@ Scaled(timestamp, 9)
    ELSE [raises |-> TRUE, n |-> 0, e |-> 0]

\* the text "%s" prints for what _format_field_value returns
async_influx_reporter_format_field_value(value) ==
    IF value.t = "markint" THEN <<Num(value.n), Lit("i")>>
    ELSE IF value.t # "str" THEN python_str(value)
    ELSE <<Lit("\""), Lit(value.s), Lit("\"")>>

\* re.sub("([ ,=])", r"\\\1", value) on a str given as its characters
async_influx_reporter_format_tag_value(value) ==
    Flatten([i \in 1..Len(value) |->
        IF value[i] \in {" ", ",", "="} THEN <<Lit("\\"), Lit(value[i])>>
        ELSE <<Lit(value[i])>>])

AsyncInfluxReporter_get_table_name(self, metric_key) ==
    IF self.prefix = "" THEN <<Lit(metric_key)>>
    ELSE <<Lit(self.prefix), Lit("."), Lit(metric_key)>>

AsyncInfluxReporter_stringify_values(metric_values) ==
    LET kept == SelectSeq(metric_values, LAMBDA it : it.k # "tags" /\ it.k # "events")
    IN Join([i \in 1..Len(kept) |->
                <<Lit(kept[i].k), Lit("=")>>
                    \o async_influx_reporter_format_field_value(kept[i].v)],
            <<Lit(",")>>)

\* what self.global_tags holds once _stringify_tags(metric) has run: update()
\* is applied to copy(self.global_tags), so the attribute keeps its value
AsyncInfluxReporter_global_tags_after(self, metric) == self.global_tags

AsyncInfluxReporter_stringify_tags(self, metric) ==
    LET all_tags == dict_update(self.global_tags, metric.tags)
    IN IF Len(all_tags) > 0
       THEN <<Lit(",")>> \o
            Join([i \in 1..Len(all_tags) |->
                    <<Lit(all_tags[i].k), Lit("=")>>
                        \o async_influx_reporter_format_tag_value(all_tags[i].v)],
                 <<Lit(",")>>)
       ELSE <<>>

RECURSIVE AsyncInfluxReporter_lines_from(_, _, _, _)
\* the loop of _get_influx_protocol_lines from entry i on; self is threaded
\* through because _stringify_tags reads self.global_tags at every entry
AsyncInfluxReporter_lines_from(self, metrics, timestamp, i) ==
    IF i > Len(metrics) THEN [lines |-> <<>>, raises |-> FALSE, global_tags |-> self.global_tags]
    ELSE
      LET key == metrics[i].key
          metric_values == metrics[i].values
          table == AsyncInfluxReporter_get_table_name(self, key.key)
          values == AsyncInfluxReporter_stringify_values(metric_values)
          tags == AsyncInfluxReporter_stringify_tags(self, key)
          self1 == [self EXCEPT !.global_tags = AsyncInfluxReporter_global_tags_after(self, key)]
          metric_line ==
              IF Len(values) > 0
              THEN << table \o tags \o <<Lit(" ")>> \o values \o <<Lit(" ")>> \o TsText(timestamp) >>
              ELSE <<>>
          events == dict_get(metric_values, "events", EventsV(<<>>)).ev
          event_lines ==
              [j \in 1..Len(events) |->
                  table \o tags \o <<Lit(" ")>>
                      \o AsyncInfluxReporter_stringify_values(events[j].values)
                      \o <<Lit(" ")>>
                      \o TsText(async_influx_reporter_to_timestamp_in_precision(events[j].time, self.reporting_precision))]
          event_raises ==
              Len(events) > 0
                  /\ async_influx_reporter_to_timestamp_in_precision(events[1].time, self.reporting_precision).raises
          rest == AsyncInfluxReporter_lines_from(self1, metrics, timestamp, i + 1)
      IN IF event_raises
         THEN [lines |-> <<>>, raises |-> TRUE, global_tags |-> self1.global_tags]
         ELSE [lines |-> metric_line \o event_lines \o rest.lines,
               raises |-> rest.raises,
               global_tags |-> rest.global_tags]

AsyncInfluxReporter_get_influx_protocol_lines(self, metrics, timestamp) ==
    AsyncInfluxReporter_lines_from(self, metrics, timestamp, 1)

\* ------------------------------------------------------------ the state
VARIABLES
    reporter,   \* the reporter object: its class and attributes, or "none" before __init__
    registry,   \* what the reporter's own registry would dump: a sequence of entries
    dir,        \* LineProtocolReporter's directory: the *.txt files, in creation order
    csvDir,     \* CsvReporter's directory: file name -> its lines
    files,      \* CsvReporter.files: the targets it holds an open file for
    http,       \* the InfluxDB endpoint: write requests received, and the last body
    queue,      \* the SQS queue: messages received, and the last body
    last,       \* what the most recent report_now did
    calls,      \* report_now invocations so far
    hist,       \* CsvReporter's reports so far: the date and the identities of each
    enc         \* the encoders applied to one drawn input (SpecEnc)

vars == <<reporter, registry, dir, csvDir, files, http, queue, last, calls, hist, enc>>

\* ------------------------------------------------- inputs of the encoders
MaxFields == 2

Scalars == {IntV(10), MarkIntV(10), StrV("x"), StrSubV("x")}

Event1 == [time |-> 7325, values |-> <<Item("field", IntV(1))>>]

Event2 == [time |-> 0, values |-> <<Item("field", StrV("y")), Item("n", MarkIntV(2))>>]

EventLists == {<<Event1>>, <<Event2, Event1>>}

IdTags == { <<>>, <<Item("env", <<"p">>), Item("host", <<"a", ",", "=">>)>> }

GlobalTags == { <<>>, <<Item("env", <<"x">>), Item("dc", <<"e", "u">>)>> }

Prefixes == {"", "pre"}

\* a value that is a member of neither ReportingPrecision class
NoPrecision == Member("none", "d")

Precisions == ReportingPrecision \cup async_influx_reporter_ReportingPrecision \cup {NoPrecision}

FieldItems ==
    {Item(k, v) : k \in {"count", "value"}, v \in Scalars}
        \cup {Item("tags", TagsV(<<Item("host", <<"a">>)>>))}
        \cup {Item("events", EventsV(ev)) : ev \in EventLists}

\* the field mappings of at most MaxFields items
FieldMappings ==
    {d \in UNION {[1..n -> FieldItems] : n \in 0..MaxFields} :
        \A i, j \in 1..Len(d) : i # j => d[i].k # d[j].k}

Entry(key, tags, values) == [key |-> [key |-> key, tags |-> tags], values |-> values]

EntryZ == Entry("z", <<>>, <<Item("count", IntV(3))>>)

EncTimestamps == {11000}

EncOff == [phase |-> "off"]

\* one class's encoders on the drawn input: the parts, and the lines
EncLine(self, metrics, timestamp) ==
    LET ts == to_timestamp_in_precision(timestamp, self.reporting_precision)
        r == LineProtocolReporter_get_influx_protocol_lines(self, metrics, ts)
    IN [raises |-> ts.raises \/ r.raises,
        lines |-> IF ts.raises \/ r.raises THEN <<>> ELSE r.lines,
        values |-> LineProtocolReporter_stringify_values(metrics[1].values),
        tags |-> LineProtocolReporter_stringify_tags(self, metrics[1].key),
        table |-> LineProtocolReporter_get_table_name(self, metrics[1].key.key),
        global_tags |-> IF ts.raises THEN self.global_tags ELSE r.global_tags]

EncInflux(self, metrics, timestamp) ==
    LET ts == to_timestamp_in_precision(timestamp, self.reporting_precision)
        r == InfluxReporter_get_influx_protocol_lines(self, metrics, ts)
    IN [raises |-> ts.raises \/ r.raises,
        lines |-> IF ts.raises \/ r.raises THEN <<>> ELSE r.lines,
        values |-> InfluxReporter_stringify_values(metrics[1].values),
        tags |-> InfluxReporter_stringify_tags(self, metrics[1].key),
        table |-> InfluxReporter_get_table_name(self, metrics[1].key.key),
        global_tags |-> IF ts.raises THEN self.global_tags ELSE r.global_tags]

EncAsync(self, metrics, timestamp) ==
    LET ts == async_influx_reporter_to_timestamp_in_precision(timestamp, self.reporting_precision)
        r == AsyncInfluxReporter_get_influx_protocol_lines(self, metrics, ts)
    IN [raises |-> ts.raises \/ r.raises,
        lines |-> IF ts.raises \/ r.raises THEN <<>> ELSE r.lines,
        values |-> AsyncInfluxReporter_stringify_values(metrics[1].values),
        tags |-> AsyncInfluxReporter_stringify_tags(self, metrics[1].key),
        table |-> AsyncInfluxReporter_get_table_name(self, metrics[1].key.key),
        global_tags |-> IF ts.raises THEN self.global_tags ELSE r.global_tags]

EncInit ==
    /\ reporter = [kind |-> "none"]
    /\ registry = <<>>
    /\ dir = <<>>
    /\ csvDir = <<>>
    /\ files = {}
    /\ http = [n |-> 0, body |-> <<>>, creates |-> 0, requests |-> <<>>]
    /\ queue = [n |-> 0, body |-> <<>>]
    /\ last = [op |-> "none"]
    /\ calls = 0
    /\ hist = <<>>
    /\ \E prefix \in Prefixes, global_tags \in GlobalTags, precision \in Precisions,
          tags \in IdTags, values \in FieldMappings, timestamp \in EncTimestamps,
          more \in {<<>>, <<EntryZ>>} :
          enc = [phase |-> "in",
                 self |-> [prefix |-> prefix, global_tags |-> global_tags,
                           reporting_precision |-> precision],
                 metrics |-> <<Entry("m", tags, values)>> \o more,
                 timestamp |-> timestamp,
                 out |-> <<>>]

\* report_now's encoding steps on the drawn input, for each of the three classes
Encode ==
    /\ enc.phase = "in"
    /\ enc' = [enc EXCEPT
                 !.phase = "out",
                 !.out = [line |-> EncLine(enc.self, enc.metrics, enc.timestamp),
                          influx |-> EncInflux(enc.self, enc.metrics, enc.timestamp),
                          async |-> EncAsync(enc.self, enc.metrics, enc.timestamp)]]
    /\ UNCHANGED <<reporter, registry, dir, csvDir, files, http, queue, last, calls, hist>>

EncNext == Encode

SpecEnc == EncInit /\ [][EncNext]_vars

\* ------------------------------------------------------------ registry
MaxReports == 2

Counter(key, tags, n) ==
    [key |-> key, tags |-> tags, kind |-> "counter", value |-> IntV(n), events |-> <<>>]

Gauge(key, tags, v) ==
    [key |-> key, tags |-> tags, kind |-> "gauge", value |-> v, events |-> <<>>]

EventLog(key, tags, events) ==
    [key |-> key, tags |-> tags, kind |-> "event", value |-> IntV(0), events |-> events]

\* the field mapping of one instrument, by its kind
get_metrics(instrument) ==
    IF instrument.kind = "counter" THEN <<Item("count", instrument.value)>>
    ELSE IF instrument.kind = "gauge" THEN <<Item("value", instrument.value)>>
    ELSE <<Item("events", EventsV(instrument.events))>>

\* MetricsRegistry.dump_metrics(key_is_metric=True): identity -> field mapping
dump_metrics(reg) ==
    [i \in 1..Len(reg) |-> Entry(reg[i].key, reg[i].tags, get_metrics(reg[i]))]

TagsHost == <<Item("host", <<"a", " ", "b">>)>>

TagsEnv == <<Item("env", <<"p">>)>>

\* what the metric producers may have the reporter's registry hold
SampleRegistries ==
    { <<>>,
      <<Counter("m", <<>>, 1)>>,
      <<Counter("m", <<>>, 2), Counter("m", TagsHost, 5)>>,
      <<Counter("m", <<>>, 2), EventLog("e", TagsEnv, <<Event1>>), Gauge("g", <<>>, StrV("x"))>>,
      <<EventLog("q", <<>>, <<>>)>> }

OtherRegistry == <<Gauge("o", <<>>, MarkIntV(3))>>

\* report_now's registry argument: None, or another registry
RegistryArgs == {[given |-> FALSE, reg |-> <<>>], [given |-> TRUE, reg |-> OtherRegistry]}

\* report_now's timestamp argument: None, or a number of seconds
TimestampArgs ==
    {[given |-> FALSE, v |-> 0], [given |-> TRUE, v |-> 61], [given |-> TRUE, v |-> 0]}

\* what self.clock.time() returns (whole seconds)
ClockTimes == {7325}

LifePrecisions == {Member("utils", "s"), Member("utils", "ms"), NoPrecision}

\* the reporting_precision arguments given to AsyncInfluxReporter
AsyncLifePrecisions ==
    {Member("async_influx_reporter", "s"), Member("async_influx_reporter", "ms"),
     Member("utils", "s")}

LifeTags == {[prefix |-> "", global_tags |-> <<>>],
             [prefix |-> "pre", global_tags |-> <<Item("env", <<"x">>), Item("dc", <<"e", "u">>)>>]}

Separators == {"\t", ";"}

Idle == [op |-> "none"]

\* the record of one report_now invocation
Call(regArg, tsArg, snapshots, source, snapshot, lines, sent, attempted, error, logged) ==
    [op |-> "report_now", regGiven |-> regArg.given, ts |-> tsArg,
     snapshots |-> snapshots, source |-> source, snapshot |-> snapshot,
     lines |-> lines, sent |-> sent, attempted |-> attempted,
     error |-> error, logged |-> logged]

NewReporter(kind, prefix, global_tags, precision, autocreate, separator) ==
    [kind |-> kind, prefix |-> prefix, global_tags |-> global_tags,
     init_global_tags |-> global_tags,
     reporting_precision |-> precision,
     autocreate_database |-> autocreate, did_create_database |-> FALSE,
     reported_files |-> <<>>,
     separator |-> separator]

\* -------------------------------------------------------- constructors
InfluxReporter_init ==
    /\ reporter.kind = "none"
    /\ \E c \in LifeTags, precision \in LifePrecisions, autocreate \in BOOLEAN :
          reporter' = NewReporter("influx", c.prefix, c.global_tags, precision, autocreate, "")
    /\ UNCHANGED <<registry, dir, csvDir, files, http, queue, last, calls, hist, enc>>

LineProtocolReporter_init ==
    /\ reporter.kind = "none"
    /\ \E c \in LifeTags, precision \in LifePrecisions :
          reporter' = NewReporter("line", c.prefix, c.global_tags, precision, FALSE, "")
    /\ UNCHANGED <<registry, dir, csvDir, files, http, queue, last, calls, hist, enc>>

CsvReporter_init ==
    /\ reporter.kind = "none"
    /\ \E separator \in Separators :
          reporter' = NewReporter("csv", "", <<>>, Member("utils", "s"), FALSE, separator)
    /\ UNCHANGED <<registry, dir, csvDir, files, http, queue, last, calls, hist, enc>>

AsyncInfluxReporter_init ==
    /\ reporter.kind = "none"
    /\ \E c \in LifeTags, precision \in AsyncLifePrecisions :
          reporter' = NewReporter("async", c.prefix, c.global_tags, precision, FALSE, "")
    /\ UNCHANGED <<registry, dir, csvDir, files, http, queue, last, calls, hist, enc>>

\* the metric producers change what the registry holds
Producers ==
    /\ \E r \in SampleRegistries : r # registry /\ registry' = r
    /\ UNCHANGED <<reporter, dir, csvDir, files, http, queue, last, calls, hist, enc>>

\* timestamp or self.clock.time()
timestamp_or_clock(tsArg, now) == IF tsArg.given /\ tsArg.v # 0 THEN tsArg.v ELSE now

\* (registry or self.registry)
registry_or_own(regArg, own) == IF regArg.given THEN regArg.reg ELSE own

snapshot_source(regArg) == IF regArg.given THEN "arg" ELSE "own"

\* -------------------------------------------- LineProtocolReporter.report_now
\* a variant that takes every list for true
list_is_true_always(lines) == TRUE

\* "if influx_lines:": a list is true when it is not empty
list_is_true(lines) == Len(lines) > 0

\* a variant that gives every report the same file name
uuid4_reused(d) == 1

\* uuid.uuid4().hex: a name no file of the directory has
uuid4(d) == Len(d) + 1

\* open(name, "a") and write(data): the file is created if it is not there
file_append(d, name, data) ==
    IF \E i \in 1..Len(d) : d[i].name = name
    THEN [i \in 1..Len(d) |-> IF d[i].name = name
                                THEN [d[i] EXCEPT !.content = @ \o data] ELSE d[i]]
    ELSE Append(d, [name |-> name, content |-> data])

LineProtocolReporter_report_now ==
    /\ reporter.kind = "line"
    /\ calls < MaxReports
    /\ calls' = calls + 1
    /\ \E regArg \in RegistryArgs, tsArg \in TimestampArgs, now \in ClockTimes,
          fault \in {"none", "OSError"} :
        LET timestamp == timestamp_or_clock(tsArg, now)
            ts == to_timestamp_in_precision(timestamp, reporter.reporting_precision)
            metrics == dump_metrics(registry_or_own(regArg, registry))
            r == LineProtocolReporter_get_influx_protocol_lines(reporter, metrics, ts)
            post_data == Join(r.lines, <<Lit("\n")>>)
        IN IF ts.raises
           THEN /\ last' = Call(regArg, tsArg, 0, "none", <<>>, <<>>, <<>>, FALSE,
                                "Unsupported ReportingPrecision", FALSE)
                /\ UNCHANGED <<reporter, dir>>
           ELSE /\ reporter' = [reporter EXCEPT !.global_tags = r.global_tags]
                /\ IF ~list_is_true(r.lines)
                   THEN /\ fault = "none"
                        /\ dir' = dir
                        /\ last' = Call(regArg, tsArg, 1, snapshot_source(regArg), metrics,
                                        r.lines, <<>>, FALSE, "", FALSE)
                   ELSE IF fault = "none"
                   THEN /\ dir' = file_append(dir, uuid4(dir), post_data)
                        /\ last' = Call(regArg, tsArg, 1, snapshot_source(regArg), metrics,
                                        r.lines, <<post_data>>, TRUE, "", FALSE)
                   ELSE /\ dir' = dir
                        /\ last' = Call(regArg, tsArg, 1, snapshot_source(regArg), metrics,
                                        r.lines, <<>>, TRUE, fault, FALSE)
    /\ UNCHANGED <<registry, csvDir, files, http, queue, hist, enc>>

\* ---------------------------------------------------- InfluxReporter.report_now
\* _create_database: one request; _did_create_database is set once the response
\* was read; only a URLError is caught (and logged)
InfluxReporter_create_database(self, createFault) ==
    [self EXCEPT !.did_create_database = (createFault = "none")]

\* what _create_database lets out to report_now: nothing, or the error that is
\* no URLError
InfluxReporter_create_database_error(createFault) ==
    IF createFault \in {"none", "URLError"} THEN "" ELSE createFault

\* _try_send: True, or False with the URLError logged; any other error propagates
\* (response.read() can raise http.client.IncompleteRead, which is no URLError)
InfluxReporter_try_send(fault) ==
    [returns |-> fault = "none",
     logged |-> fault = "URLError",
     error |-> IF fault \in {"none", "URLError"} THEN "" ELSE fault]

InfluxReporter_report_now ==
    /\ reporter.kind = "influx"
    /\ calls < MaxReports
    /\ calls' = calls + 1
    /\ \E regArg \in RegistryArgs, tsArg \in TimestampArgs, now \in ClockTimes,
          createFault \in {"none", "URLError", "IncompleteRead"},
          fault \in {"none", "URLError", "IncompleteRead"} :
        LET creating == reporter.autocreate_database /\ ~reporter.did_create_database
            self0 == IF creating THEN InfluxReporter_create_database(reporter, createFault)
                     ELSE reporter
            creates == IF creating THEN http.creates + 1 ELSE http.creates
            asked == IF creating THEN <<"create">> ELSE <<>>
            createError == InfluxReporter_create_database_error(createFault)
            timestamp == timestamp_or_clock(tsArg, now)
            ts == to_timestamp_in_precision(timestamp, reporter.reporting_precision)
            metrics == dump_metrics(registry_or_own(regArg, registry))
            r == InfluxReporter_get_influx_protocol_lines(self0, metrics, ts)
            post_data == Join(r.lines, <<Lit("\n")>>)
            send == InfluxReporter_try_send(fault)
        IN /\ (~creating => createFault = "none")
           /\ IF createError # ""
              THEN /\ fault = "none"
                   /\ reporter' = self0
                   /\ http' = [http EXCEPT !.creates = creates, !.requests = asked]
                   /\ last' = Call(regArg, tsArg, 0, "none", <<>>, <<>>, <<>>, FALSE,
                                   createError, FALSE)
              ELSE IF ts.raises
              THEN /\ fault = "none"
                   /\ reporter' = self0
                   /\ http' = [http EXCEPT !.creates = creates, !.requests = asked]
                   /\ last' = Call(regArg, tsArg, 0, "none", <<>>, <<>>, <<>>, FALSE,
                                   "Unsupported ReportingPrecision", FALSE)
              ELSE /\ reporter' = [self0 EXCEPT !.global_tags = r.global_tags]
                   /\ IF ~list_is_true(r.lines)
                      THEN /\ fault = "none"
                           /\ http' = [http EXCEPT !.creates = creates, !.requests = asked]
                           /\ last' = Call(regArg, tsArg, 1, snapshot_source(regArg), metrics,
                                           r.lines, <<>>, FALSE, "", FALSE)
                      ELSE /\ http' = [n |-> http.n + 1,
                                       body |-> IF send.returns THEN post_data ELSE http.body,
                                       creates |-> creates,
                                       requests |-> Append(asked, "write")]
                           /\ last' = Call(regArg, tsArg, 1, snapshot_source(regArg), metrics,
                                           r.lines,
                                           IF send.returns THEN <<post_data>> ELSE <<>>,
                                           TRUE, send.error, send.logged)
    /\ UNCHANGED <<registry, dir, csvDir, files, queue, hist, enc>>

\* ----------------------------------------------- InfluxReporter.report_from_files
\* line-protocol files another process leaves in the directory
TxtFiles ==
    { [name |-> 11, content |-> <<Lit("m"), Lit(" "), Lit("count=1"), Lit(" "), Num(61)>>],
      [name |-> 12, content |-> <<Lit("m"), Lit(" "), Lit("count=2"), Lit(" "), Num(62)>>],
      [name |-> 13, content |-> <<Lit("g"), Lit(" "), Lit("value=3i"), Lit(" "), Num(63)>>] }

\* a "*.txt" file appears in the directory
TxtFileWritten ==
    /\ reporter.kind = "influx"
    /\ \E f \in TxtFiles :
          /\ \A i \in 1..Len(dir) : dir[i].name # f.name
          /\ dir' = Append(dir, f)
    /\ UNCHANGED <<reporter, registry, csvDir, files, http, queue, last, calls, hist, enc>>

\* files_path.glob("*.txt") without the files of self.reported_files
files_to_report(self, d) ==
    SelectSeq(d, LAMBDA f : \A i \in 1..Len(self.reported_files) :
                                self.reported_files[i] # f.name)

RECURSIVE InfluxReporter_send_files_from(_, _, _, _, _)
\* the loop of report_from_files from the i-th file on: each file is read and
\* handed to _try_send, and appended to reported_files when that returns True;
\* an error _try_send does not catch ends the loop and the call
InfluxReporter_send_files_from(todo, faults, i, reported, log) ==
    IF i > Len(todo) THEN [reported_files |-> reported, log |-> log, error |-> ""]
    ELSE LET send == InfluxReporter_try_send(faults[i])
             entry == [name |-> todo[i].name, data |-> todo[i].content, ok |-> send.returns]
         IN IF send.error # ""
            THEN [reported_files |-> reported, log |-> Append(log, entry),
                  error |-> send.error]
            ELSE InfluxReporter_send_files_from(
                     todo, faults, i + 1,
                     IF send.returns THEN Append(reported, todo[i].name) ELSE reported,
                     Append(log, entry))

InfluxReporter_report_from_files ==
    /\ reporter.kind = "influx"
    /\ calls < MaxReports
    /\ calls' = calls + 1
    /\ LET todo == files_to_report(reporter, dir)
       IN \E faults \in [1..Len(todo) -> {"none", "URLError", "IncompleteRead"}] :
            LET r == InfluxReporter_send_files_from(todo, faults, 1,
                                                    reporter.reported_files, <<>>)
                done == SelectSeq(r.log, LAMBDA e : e.ok)
            IN /\ reporter' = [reporter EXCEPT !.reported_files = r.reported_files]
               /\ http' = [http EXCEPT
                             !.n = @ + Len(r.log),
                             !.body = IF Len(done) > 0 THEN done[Len(done)].data ELSE @,
                             !.requests = [i \in 1..Len(r.log) |-> "write"]]
               /\ last' = [op |-> "report_from_files", log |-> r.log, error |-> r.error]
    /\ UNCHANGED <<registry, dir, csvDir, files, queue, hist, enc>>

\* the reporters report_from_files can be called on
FileReporters ==
    { NewReporter("influx", c.prefix, c.global_tags, precision, FALSE, "") :
        c \in LifeTags, precision \in {Member("utils", "s"), Member("utils", "ms")} }

FilesInit ==
    /\ reporter \in FileReporters
    /\ registry = <<>>
    /\ dir = <<>>
    /\ csvDir = <<>>
    /\ files = {}
    /\ http = [n |-> 0, body |-> <<>>, creates |-> 0, requests |-> <<>>]
    /\ queue = [n |-> 0, body |-> <<>>]
    /\ last = Idle
    /\ calls = 0
    /\ hist = <<>>
    /\ enc = EncOff

FilesNext ==
    \/ TxtFileWritten
    \/ InfluxReporter_report_from_files

SpecFiles == FilesInit /\ [][FilesNext]_vars

\* ----------------------------------------------- AsyncInfluxReporter.report_now
AsyncInfluxReporter_format_sqs_message(self, lines) ==
    <<Lit("precision="), Lit(self.reporting_precision.value), Lit(";reports=")>>
        \o Join(lines, <<Lit("\n")>>)

AsyncInfluxReporter_report_now ==
    /\ reporter.kind = "async"
    /\ calls < MaxReports
    /\ calls' = calls + 1
    /\ \E regArg \in RegistryArgs, tsArg \in TimestampArgs, now \in ClockTimes,
          fault \in {"none", "ClientError"} :
        LET timestamp == timestamp_or_clock(tsArg, now)
            ts == async_influx_reporter_to_timestamp_in_precision(
                      timestamp, reporter.reporting_precision)
            metrics == dump_metrics(registry_or_own(regArg, registry))
            r == AsyncInfluxReporter_get_influx_protocol_lines(reporter, metrics, ts)
            message == AsyncInfluxReporter_format_sqs_message(reporter, r.lines)
        IN IF ts.raises
           THEN /\ fault = "none"
                /\ last' = Call(regArg, tsArg, 0, "none", <<>>, <<>>, <<>>, FALSE,
                                "Unsupported ReportingPrecision", FALSE)
                /\ UNCHANGED <<reporter, queue>>
           ELSE /\ reporter' = [reporter EXCEPT !.global_tags = r.global_tags]
                /\ queue' = [n |-> queue.n + 1,
                             body |-> IF fault = "none" THEN message ELSE queue.body]
                /\ last' = Call(regArg, tsArg, 1, snapshot_source(regArg), metrics, r.lines,
                                IF fault = "none" THEN <<message>> ELSE <<>>,
                                TRUE, IF fault = "none" THEN "" ELSE fault, FALSE)
    /\ UNCHANGED <<registry, dir, csvDir, files, http, hist, enc>>

\* ------------------------------------------------------ CsvReporter.report_now
\* the keys a field mapping can hold, in the order sorted() gives them
KeyOrder == <<"count", "events", "field", "n", "tags", "value">>

sorted(keys) == SelectSeq(KeyOrder, LAMBDA k : k \in keys)

\* (datetime(1970, 1, 1) + timedelta(seconds=timestamp)).strftime("%Y-%m-%d %H:%M:%S"):
\* the day after 1970-01-01, then the hour, minute and second of that day
format_date(timestamp) ==
    <<Lit("1970-01-01+"), Num(timestamp \div 86400), Lit(" "),
      Num((timestamp % 86400) \div 3600), Lit(":"),
      Num((timestamp % 3600) \div 60), Lit(":"), Num(timestamp % 60)>>

csv_target(key) == [stem |-> key.key, ext |-> "csv"]

RECURSIVE CsvReporter_save_from(_, _, _, _, _, _)
\* the loop of _save_metrics from entry i on, over the directory d and self.files fs
CsvReporter_save_from(self, metrics, date, d, fs, i) ==
    IF i > Len(metrics) THEN [dir |-> d, files |-> fs, written |-> <<>>]
    ELSE
      LET key == metrics[i].key
          values == dict_set(metrics[i].values, "tags", TagsV(key.tags))
          value_keys == sorted(dict_keys(values))
          target == csv_target(key)
          cached == target \in fs
          exists == \E j \in 1..Len(d) : d[j].name = target
          sep == <<Lit(self.separator)>>
          header == Join(<< <<Lit("timestamp")>> >>
                            \o [j \in 1..Len(value_keys) |-> <<Lit(value_keys[j])>>], sep)
          row == Join(<<date>> \o [j \in 1..Len(value_keys) |->
                                     python_str(dict_get(values, value_keys[j], IntV(0)))], sep)
          d1 == IF cached \/ exists THEN d
                ELSE Append(d, [name |-> target, lines |-> <<header>>])
          d2 == [j \in 1..Len(d1) |->
                    IF d1[j].name = target THEN [d1[j] EXCEPT !.lines = Append(@, row)]
                    ELSE d1[j]]
          rest == CsvReporter_save_from(self, metrics, date, d2, fs \cup {target}, i + 1)
      IN [dir |-> rest.dir, files |-> rest.files,
          written |-> (IF cached \/ exists THEN <<row>> ELSE <<header, row>>) \o rest.written]

CsvReporter_save_metrics(self, metrics, date, d, fs) ==
    CsvReporter_save_from(self, metrics, date, d, fs, 1)

CsvReporter_report_now ==
    /\ reporter.kind = "csv"
    /\ calls < MaxReports
    /\ calls' = calls + 1
    /\ \E regArg \in RegistryArgs, tsArg \in TimestampArgs, now \in ClockTimes,
          fault \in {"none", "OSError"} :
        LET timestamp == timestamp_or_clock(tsArg, now)
            date == format_date(timestamp)
            metrics == dump_metrics(registry_or_own(regArg, registry))
            r == CsvReporter_save_metrics(reporter, metrics, date, csvDir, files)
        IN /\ hist' = Append(hist, [date |-> date, ok |-> fault = "none",
                                    keys |-> {metrics[i].key : i \in 1..Len(metrics)}])
           /\ IF Len(metrics) = 0
              THEN /\ fault = "none"
                   /\ last' = Call(regArg, tsArg, 1, snapshot_source(regArg), metrics,
                                   <<>>, <<>>, FALSE, "", FALSE)
                   /\ UNCHANGED <<csvDir, files>>
              ELSE IF fault = "none"
              THEN /\ csvDir' = r.dir
                   /\ files' = r.files
                   /\ last' = Call(regArg, tsArg, 1, snapshot_source(regArg), metrics,
                                   <<>>, r.written, TRUE, "", FALSE)
              ELSE /\ last' = Call(regArg, tsArg, 1, snapshot_source(regArg), metrics,
                                   <<>>, <<>>, TRUE, fault, FALSE)
                   /\ UNCHANGED <<csvDir, files>>
    /\ UNCHANGED <<reporter, registry, dir, http, queue, enc>>

Init ==
    /\ reporter = [kind |-> "none"]
    /\ registry = <<>>
    /\ dir = <<>>
    /\ csvDir = <<>>
    /\ files = {}
    /\ http = [n |-> 0, body |-> <<>>, creates |-> 0, requests |-> <<>>]
    /\ queue = [n |-> 0, body |-> <<>>]
    /\ last = Idle
    /\ calls = 0
    /\ hist = <<>>
    /\ enc = EncOff

Next ==
    \/ InfluxReporter_init
    \/ LineProtocolReporter_init
    \/ CsvReporter_init
    \/ AsyncInfluxReporter_init
    \/ Producers
    \/ LineProtocolReporter_report_now
    \/ InfluxReporter_report_now
    \/ AsyncInfluxReporter_report_now
    \/ CsvReporter_report_now

Spec == Init /\ [][Next]_vars

\* ---------------------------------------------------------- statements
Classes == {"line", "influx", "async"}

LineKinds == {"line", "influx", "async"}

Reported == last.op = "report_now"

Fields(d) == SelectSeq(d, LAMBDA it : it.k \notin {"tags", "events"})

EventsOf(d) == dict_get(d, "events", EventsV(<<>>)).ev

Contains(text, piece) ==
    \E i \in 0..(Len(text) - Len(piece)) : SubSeq(text, i + 1, i + Len(piece)) = piece

StartsWith(text, piece) ==
    Len(text) >= Len(piece) /\ SubSeq(text, 1, Len(piece)) = piece

\* the lines an entry accounts for: its metric line if it has a field, one per event
LinesOf(entry) ==
    (IF Len(Fields(entry.values)) > 0 THEN 1 ELSE 0) + Len(EventsOf(entry.values))

RECURSIVE LinesBefore(_, _)
\* the lines the entries before the i-th account for
LinesBefore(metrics, i) ==
    IF i <= 1 THEN 0 ELSE LinesBefore(metrics, i - 1) + LinesOf(metrics[i - 1])

\* C1: every report_now takes exactly one snapshot, of the registry given as
\* argument if there is one and of the reporter's own otherwise, and whatever it
\* hands to its sink comes with that snapshot.
C1_OneSnapshotPerReport ==
    Reported =>
        /\ last.snapshots = 1
        /\ last.source = (IF last.regGiven THEN "arg" ELSE "own")
        /\ (Len(last.sent) > 0 => last.snapshots = 1)

\* C2: a failed sink write is caught and logged, and report_now returns normally.
C2_SinkFailureContained ==
    (Reported /\ last.attempted /\ Len(last.sent) = 0) => (last.error = "" /\ last.logged)

\* C3: an unsupported reporting precision is refused by the constructor, so
\* report_now of a constructed reporter never raises "Unsupported ReportingPrecision".
C3_PrecisionCheckedAtConstruction ==
    Reported => last.error # "Unsupported ReportingPrecision"

\* the text C4 gives a field value: a MarkInt as its payload and "i", a string
\* in double quotes, anything else unchanged
C4_FieldText(v) ==
    IF v.t = "markint" THEN <<Num(v.n), Lit("i")>>
    ELSE IF v.t \in {"str", "strsub"} THEN <<Lit("\""), Lit(v.s), Lit("\"")>>
    ELSE <<Num(v.n)>>

C4_HasField(line, it) ==
    \E before \in {Lit(" "), Lit(",")}, after \in {Lit(" "), Lit(",")} :
        Contains(line, <<before, Lit(it.k), Lit("=")>> \o C4_FieldText(it.v) \o <<after>>)

\* C4: in every metric line and every event line, a MarkInt field is written as
\* its integer payload followed by "i", a string field in double quotes, and any
\* other field unchanged.
C4_FieldValuesSerialized ==
    enc.phase = "out" =>
        \A c \in Classes :
            ~enc.out[c].raises =>
                LET mv == enc.metrics[1].values
                    fs == Fields(mv)
                    evs == EventsOf(mv)
                    off == IF Len(fs) > 0 THEN 1 ELSE 0
                    lines == enc.out[c].lines
                IN /\ \A i \in 1..Len(fs) : C4_HasField(lines[1], fs[i])
                   /\ \A j \in 1..Len(evs) : \A i \in 1..Len(evs[j].values) :
                          C4_HasField(lines[off + j], evs[j].values[i])

\* a new file holding exactly the lines, one newline between consecutive lines
RECURSIVE C5_Content(_)
C5_Content(lines) ==
    IF Len(lines) = 1 THEN lines[1]
    ELSE lines[1] \o <<Lit("\n")>> \o C5_Content(Tail(lines))

\* C5: a LineProtocolReporter.report_now whose snapshot yields a line (and whose
\* write goes through) adds exactly one file, holding that call's lines joined by
\* single newlines, and leaves every earlier file as it was: one file per report.
C5_OneFilePerReport ==
    [][ (reporter.kind = "line" /\ calls' = calls + 1
            /\ last'.error = "" /\ Len(last'.lines) > 0)
        => /\ Len(dir') = Len(dir) + 1
           /\ \A i \in 1..Len(dir) : dir'[i] = dir[i]
           /\ \A i \in 1..Len(dir) : dir[i].name # dir'[Len(dir')].name
           /\ dir'[Len(dir')].content = C5_Content(last'.lines) ]_vars

C5_Witness ==
    /\ reporter.kind = "line"
    /\ Len(dir) = 2
    /\ Len(last.lines) >= 2
    /\ dir[1].content # dir[2].content

\* the table name C6 gives: the key alone, or prefix "." key
C6_Table(prefix, key) ==
    IF prefix = "" THEN <<Lit(key)>> ELSE <<Lit(prefix)>> \o <<Lit(".")>> \o <<Lit(key)>>

\* C6: every entry with a field other than "tags" and "events" gets exactly one
\* metric line "<table><tags> <fields> <timestamp>": the table is the key, with
\* "<prefix>." before it when the prefix is not empty, and the timestamp is the
\* report timestamp in the reporting precision; an entry with no such field gets none.
C6_MetricLineForm ==
    enc.phase = "out" =>
        \A c \in Classes :
            ~enc.out[c].raises =>
                LET lines == enc.out[c].lines
                    n == Len(enc.metrics)
                    ts == IF c = "async"
                          THEN async_influx_reporter_to_timestamp_in_precision(
                                   enc.timestamp, enc.self.reporting_precision)
                          ELSE to_timestamp_in_precision(
                                   enc.timestamp, enc.self.reporting_precision)
                    tagsOf(i) ==
                        IF i = 1 THEN enc.out[c].tags
                        ELSE LineProtocolReporter_stringify_tags(enc.self, enc.metrics[i].key)
                    fieldsOf(i) ==
                        IF i = 1 THEN enc.out[c].values
                        ELSE LineProtocolReporter_stringify_values(enc.metrics[i].values)
                IN /\ Len(lines) = LinesBefore(enc.metrics, n + 1)
                   /\ \A i \in 1..n :
                        Len(Fields(enc.metrics[i].values)) > 0 =>
                            lines[LinesBefore(enc.metrics, i) + 1] =
                                C6_Table(enc.self.prefix, enc.metrics[i].key.key)
                                    \o tagsOf(i) \o <<Lit(" ")>> \o fieldsOf(i)
                                    \o <<Lit(" "), Sci(ts.n, ts.e)>>

C6_Witness ==
    /\ enc.phase = "out"
    /\ enc.self.prefix # ""
    /\ enc.self.reporting_precision = Member("utils", "ms")
    /\ Len(enc.metrics) = 2
    /\ Len(Fields(enc.metrics[1].values)) > 0
    /\ Len(EventsOf(enc.metrics[1].values)) > 0
    /\ Len(enc.out["line"].lines) >= 3

RECURSIVE C7_Kept(_)
\* the items of d but those keyed "tags" and "events", in d's order
C7_Kept(d) ==
    IF Len(d) = 0 THEN <<>>
    ELSE IF d[1].k = "tags" \/ d[1].k = "events" THEN C7_Kept(Tail(d))
    ELSE <<d[1]>> \o C7_Kept(Tail(d))

\* "key=value" for each of the items, with a comma before each but the first;
\* texts[i] is the text of the i-th value
C7_Pairs(items, texts) ==
    Flatten([i \in 1..Len(items) |->
                (IF i > 1 THEN <<Lit(",")>> ELSE <<>>)
                    \o <<Lit(items[i].k), Lit("=")>> \o texts[i]])

\* C7: _stringify_values gives the "key=value" pairs of every entry not keyed
\* "tags" or "events", in the mapping's order, joined by commas; no line carries
\* a "tags" or "events" field, and a mapping of only those yields the empty string.
C7_StringifyValues ==
    enc.phase = "out" =>
        LET mv == enc.metrics[1].values
            kept == C7_Kept(mv)
        IN /\ enc.out["line"].values =
                C7_Pairs(kept, [i \in 1..Len(kept) |->
                                  line_protocol_reporter_format_field_value(kept[i].v)])
           /\ enc.out["influx"].values =
                C7_Pairs(kept, [i \in 1..Len(kept) |-> influx_format_field_value(kept[i].v)])
           /\ enc.out["async"].values =
                C7_Pairs(kept, [i \in 1..Len(kept) |->
                                  async_influx_reporter_format_field_value(kept[i].v)])
           /\ \A c \in Classes :
                /\ (dict_keys(mv) \subseteq {"tags", "events"} => enc.out[c].values = <<>>)
                /\ \A i \in 1..Len(enc.out[c].lines) :
                     /\ ~Contains(enc.out[c].lines[i], <<Lit("tags"), Lit("=")>>)
                     /\ ~Contains(enc.out[c].lines[i], <<Lit("events"), Lit("=")>>)

C7_Witness ==
    /\ enc.phase = "out"
    /\ Len(enc.metrics[1].values) = 2
    /\ enc.metrics[1].values[1].k = "events"
    /\ enc.metrics[1].values[2].k = "value"
    /\ Len(enc.out["line"].values) > 0
    /\ Len(enc.out["line"].lines) > 0

\* a tag value with a backslash before each space, comma and equals sign
RECURSIVE C8_Escaped(_)
C8_Escaped(v) ==
    IF Len(v) = 0 THEN <<>>
    ELSE (IF v[1] = " " \/ v[1] = "," \/ v[1] = "=" THEN <<Lit("\\")>> ELSE <<>>)
            \o <<Lit(v[1])>> \o C8_Escaped(Tail(v))

\* the global tags first, each with the metric's value where the metric has the
\* key too, then the metric's other tags: ",k=v" for each
C8_Tags(global, own) ==
    LET merged ==
            [i \in 1..Len(global) |->
                IF dict_has(own, global[i].k)
                THEN Item(global[i].k, dict_get(own, global[i].k, <<>>))
                ELSE global[i]]
            \o SelectSeq(own, LAMBDA it : ~dict_has(global, it.k))
    IN Flatten([i \in 1..Len(merged) |->
                    <<Lit(","), Lit(merged[i].k), Lit("=")>> \o C8_Escaped(merged[i].v)])

\* C8: the tags of a line are the global tags merged with the metric's own, the
\* global ones first and the metric's value winning, as ",k=v" pairs; and the
\* reporter's global_tags stay what the constructor was given through every
\* report_now, so no metric's tags reach the lines of another metric.
C8_GlobalTagsKept ==
    reporter.kind \in LineKinds =>
        /\ reporter.global_tags = reporter.init_global_tags
        /\ (Reported /\ last.snapshots = 1) =>
              \A i \in 1..Len(last.snapshot) :
                  \A j \in 1..LinesOf(last.snapshot[i]) :
                      StartsWith(last.lines[LinesBefore(last.snapshot, i) + j],
                                 C6_Table(reporter.prefix, last.snapshot[i].key.key)
                                    \o C8_Tags(reporter.init_global_tags,
                                               last.snapshot[i].key.tags)
                                    \o <<Lit(" ")>>)

C8_Witness ==
    /\ reporter.kind = "line"
    /\ calls = 2
    /\ Len(reporter.init_global_tags) > 0
    /\ Reported
    /\ Len(last.snapshot) = 3
    /\ Len(last.lines) = 3

\* C9: CsvReporter writes nothing of an event instrument: no file for it, and no
\* row or column with event content.
C9_CsvIgnoresEvents ==
    (reporter.kind = "csv" /\ Reported) =>
        /\ \A i \in 1..Len(last.snapshot) :
              dict_has(last.snapshot[i].values, "events") =>
                  \A f \in 1..Len(csvDir) : csvDir[f].name # csv_target(last.snapshot[i].key)
        /\ \A f \in 1..Len(csvDir) : \A l \in 1..Len(csvDir[f].lines) :
              /\ ~Contains(csvDir[f].lines[l], <<Lit("events")>>)
              /\ ~Contains(csvDir[f].lines[l], <<Lit("EventPoint@")>>)

\* C10: with the directory empty at the start, after n >= 1 reports that all had
\* the metric m, m.csv is one header line ("timestamp" and m's field names with
\* "tags", sorted, joined by the separator) and then n rows, one per report in
\* call order, each starting with that report's date.
C10_CsvHeaderAndOneRowPerReport ==
    LET m == [key |-> "m", tags |-> <<>>]
        sep == <<Lit(reporter.separator)>>
    IN (/\ reporter.kind = "csv"
        /\ Len(hist) >= 1
        /\ \A i \in 1..Len(hist) : hist[i].ok /\ m \in hist[i].keys)
       => \E f \in 1..Len(csvDir) :
            /\ csvDir[f].name = csv_target(m)
            /\ Len(csvDir[f].lines) = 1 + Len(hist)
            /\ csvDir[f].lines[1] =
                  <<Lit("timestamp")>> \o sep \o <<Lit("count")>> \o sep \o <<Lit("tags")>>
            /\ \A i \in 1..Len(hist) :
                  StartsWith(csvDir[f].lines[1 + i], hist[i].date \o sep)

\* the requests of the latest report_now hold no create-database request
C11_NoCreate(h) == \A i \in 1..Len(h.requests) : h.requests[i] # "create"

\* C11: an InfluxReporter without autocreate_database never issues a
\* create-database request; with it, every report_now issues one, before its
\* write, as long as none has succeeded, and none once one has succeeded; and a
\* report_now whose create-database request failed still takes its snapshot and
\* attempts its write.
C11_AutocreateDatabase ==
    [][ (reporter.kind = "influx" /\ calls' = calls + 1 /\ last'.op = "report_now") =>
          /\ ~reporter.autocreate_database =>
                (http'.creates = http.creates /\ http.creates = 0 /\ C11_NoCreate(http'))
          /\ (reporter.autocreate_database /\ ~reporter.did_create_database) =>
                /\ http'.creates = http.creates + 1
                /\ Len(http'.requests) >= 1
                /\ http'.requests[1] = "create"
                /\ \A i \in 2..Len(http'.requests) : http'.requests[i] = "write"
          /\ reporter.did_create_database =>
                /\ reporter'.did_create_database
                /\ http'.creates = http.creates
                /\ C11_NoCreate(http')
          /\ (/\ reporter.autocreate_database
              /\ ~reporter.did_create_database
              /\ ~reporter'.did_create_database
              /\ reporter.reporting_precision \in ReportingPrecision) =>
                /\ last'.snapshots = 1
                /\ last'.attempted = (Len(last'.lines) > 0) ]_vars

\* the names of a sequence of names, and of the entries of a log
C12_Names(names) == {names[i] : i \in 1..Len(names)}

C12_Sent(log) == {log[i].name : i \in 1..Len(log)}

\* C12: over report_from_files calls on one directory, a file enters
\* reported_files only when a send of its contents succeeded in that call; a file
\* of reported_files is never sent by a later call; a file whose send failed is
\* not in reported_files and is sent again by the next call; no file is sent
\* twice in one call.
C12_ReportFromFiles ==
    [][ (last'.op = "report_from_files" /\ calls' = calls + 1) =>
          LET before == C12_Names(reporter.reported_files)
              after == C12_Names(reporter'.reported_files)
              log == last'.log
          IN /\ after = before \cup {log[i].name : i \in {j \in 1..Len(log) : log[j].ok}}
             /\ \A i \in 1..Len(log) :
                   /\ log[i].name \notin before
                   /\ \E k \in 1..Len(dir) :
                         dir[k].name = log[i].name /\ dir[k].content = log[i].data
                   /\ \A j \in 1..Len(log) : log[j].name = log[i].name => j = i
             /\ last.op = "report_from_files" =>
                   \A i \in 1..Len(last.log) :
                       ~last.log[i].ok =>
                           /\ last.log[i].name \notin before
                           /\ last.log[i].name \in C12_Sent(log) ]_vars

\* C13: a report_now of InfluxReporter or LineProtocolReporter whose snapshot
\* yields no lines issues no write request and creates no file; and an entry
\* that carries only events gets one line per event and no metric line, so no
\* line has an empty field list.
C13_NothingToWrite ==
    [][ (/\ calls' = calls + 1
         /\ last'.op = "report_now"
         /\ reporter.kind \in {"line", "influx"}
         /\ last'.snapshots = 1) =>
          /\ Len(last'.lines) = 0 =>
                /\ dir' = dir
                /\ http'.n = http.n
                /\ http'.body = http.body
                /\ \A i \in 1..Len(http'.requests) : http'.requests[i] # "write"
                /\ ~last'.attempted
          /\ Len(last'.lines) = LinesBefore(last'.snapshot, Len(last'.snapshot) + 1)
          /\ \A i \in 1..Len(last'.snapshot) :
                Len(Fields(last'.snapshot[i].values)) = 0 =>
                    LinesOf(last'.snapshot[i]) = Len(EventsOf(last'.snapshot[i].values))
          /\ \A i \in 1..Len(last'.lines) :
                ~Contains(last'.lines[i], <<Lit(" "), Lit(" ")>>) ]_vars

C13_Witness ==
    /\ reporter.kind = "influx"
    /\ Reported
    /\ calls = 2
    /\ http.n = 1
    /\ Len(http.body) > 0
    /\ last.snapshots = 1
    /\ Len(last.snapshot) = 1
    /\ Len(last.lines) = 0

\* the text of a time of t seconds in a precision, as C14 states it: t/3600,
\* t/60, t, t*10^3, t*10^6, t*10^9, truncated to an integer
C14_Time(t, precision) ==
    IF precision = "h" THEN Num(t \div 3600)
    ELSE IF precision = "m" THEN Num(t \div 60)
    ELSE IF precision = "s" THEN Num(t)
    ELSE IF t = 0 THEN Num(0)
    ELSE IF precision = "ms" THEN Sci(t, 3)
    ELSE IF precision = "u" THEN Sci(t, 6)
    ELSE Sci(t, 9)

\* the "key=value" pairs of an event's fields
C14_EventFields(values) ==
    C7_Pairs(C7_Kept(values), [i \in 1..Len(C7_Kept(values)) |-> C4_FieldText(C7_Kept(values)[i].v)])

\* the precisions a class converts: the members of its own module's enum
C14_Supported(c) ==
    IF c = "async" THEN async_influx_reporter_ReportingPrecision ELSE ReportingPrecision

C14_EndsWith(text, piece) ==
    Len(text) >= Len(piece) /\ SubSeq(text, Len(text) - Len(piece) + 1, Len(text)) = piece

\* C14: every event of an entry gets exactly one line, in the events' order and
\* after the entry's metric line if it has one; the line has the entry's table
\* and tags, the event's own fields and the event's own time in the reporting
\* precision, not the report timestamp; the metric line's timestamp is the report
\* timestamp under the same conversion.
C14_EventLines ==
    enc.phase = "out" =>
        \A c \in Classes :
            (enc.self.reporting_precision \in C14_Supported(c)) =>
                LET mv == enc.metrics[1].values
                    evs == EventsOf(mv)
                    off == IF Len(Fields(mv)) > 0 THEN 1 ELSE 0
                    lines == enc.out[c].lines
                    precision == enc.self.reporting_precision.value
                IN /\ ~enc.out[c].raises
                   /\ Len(lines) = LinesBefore(enc.metrics, Len(enc.metrics) + 1)
                   /\ off = 1 =>
                         C14_EndsWith(lines[1], <<Lit(" "), C14_Time(enc.timestamp, precision)>>)
                   /\ \A j \in 1..Len(evs) :
                         lines[off + j] =
                             C6_Table(enc.self.prefix, enc.metrics[1].key.key)
                                 \o C8_Tags(enc.self.global_tags, enc.metrics[1].key.tags)
                                 \o <<Lit(" ")>> \o C14_EventFields(evs[j].values)
                                 \o <<Lit(" "), C14_Time(evs[j].time, precision)>>

C14_Witness ==
    /\ enc.phase = "out"
    /\ enc.self.reporting_precision = Member("async_influx_reporter", "m")
    /\ Len(Fields(enc.metrics[1].values)) > 0
    /\ Len(EventsOf(enc.metrics[1].values)) = 2
    /\ Len(enc.out["async"].lines) = 3
    /\ enc.out["async"].lines[3] # enc.out["async"].lines[2]

\* C15: when report_now is given a timestamp, 0 included, the metric lines carry
\* that timestamp in the reporting precision and the CSV rows carry its date;
\* the clock's time is written only when no timestamp is given.
C15_ExplicitTimestamp ==
    (Reported /\ last.ts.given /\ last.snapshots = 1) =>
        /\ reporter.kind \in LineKinds =>
              \A i \in 1..Len(last.snapshot) :
                  Len(Fields(last.snapshot[i].values)) > 0 =>
                      C14_EndsWith(last.lines[LinesBefore(last.snapshot, i) + 1],
                                   <<Lit(" "),
                                     C14_Time(last.ts.v, reporter.reporting_precision.value)>>)
        /\ (reporter.kind = "csv" /\ last.error = "") =>
              \A i \in 1..Len(last.snapshot) :
                  \E f \in 1..Len(csvDir) :
                      /\ csvDir[f].name = csv_target(last.snapshot[i].key)
                      /\ StartsWith(csvDir[f].lines[Len(csvDir[f].lines)],
                                    format_date(last.ts.v) \o <<Lit(reporter.separator)>>)

\* C16: on the same snapshot, report timestamp, prefix, global tags and
\* reporting precision, the three classes produce the same lines (or all fail),
\* and AsyncInfluxReporter's _to_timestamp_in_precision returns what
\* utils.to_timestamp_in_precision returns.
C16_EquivalentEncoders ==
    enc.phase = "out" =>
        /\ \A c \in Classes :
              /\ enc.out[c].raises = enc.out["line"].raises
              /\ enc.out[c].lines = enc.out["line"].lines
        /\ \A t \in {enc.timestamp, Event1.time, Event2.time} :
              async_influx_reporter_to_timestamp_in_precision(t, enc.self.reporting_precision)
                  = to_timestamp_in_precision(t, enc.self.reporting_precision)

====
